---- MODULE Spec2Model ----
(***************************************************************************)
(* A model of the cty value/type core (src/lib.rs): the Type algebra, the  *)
(* tagged Value representation, the validating constructors and the        *)
(* equality relation.                                                      *)
(*                                                                         *)
(* A Type is a tagged tuple: <<"String">>, <<"List", t>>, <<"Tuple", s>>   *)
(* with s a sequence of Types, <<"Object", f>> with f a function from      *)
(* field names to Types.  A ValueInner is a tagged tuple as well:          *)
(* <<"Null">>, <<"Unknown">>, <<"Bool", b>>, <<"String", text>>,           *)
(* <<"Sequence", s>>, <<"Mapping", f>>.  A Value is [ty, v].  A text is a  *)
(* sequence of code points.                                                *)
(***************************************************************************)
EXTENDS Integers, Sequences, FiniteSets, TLC

VARIABLES
    vals,   \* the Values built so far
    res,    \* the last call: operation, inputs, outcome
    inp,    \* the inputs of the call under study (pure-function specifications)
    pc      \* where the program is

vars == <<vals, res, inp, pc>>

(***************************************************************************)
(* Bounds.                                                                 *)
(***************************************************************************)
MaxVals == 2
MaxLen == 2
MaxTextLen == 2
MaxArity == 2

SeqsUpTo(S, n) == UNION {[1..k -> S] : k \in 0..n}

Perms(S) == {p \in [1..Cardinality(S) -> S] : \A i, j \in DOMAIN p : p[i] = p[j] => i = j}

(***************************************************************************)
(* enum Type                                                               *)
(***************************************************************************)
TString == <<"String">>
TBool == <<"Bool">>
TNumber == <<"Number">>
TAny == <<"Any">>
TList(t) == <<"List", t>>
TMap(t) == <<"Map", t>>
TSet(t) == <<"Set", t>>
TTuple(s) == <<"Tuple", s>>
TObject(f) == <<"Object", f>>

FieldNames == {"a", "b"}

BaseTypes == {TString, TBool, TNumber, TAny}

\* The Types one constructor application above a set S of Types.
Wrap(S) ==
    {TList(t) : t \in S} \cup {TMap(t) : t \in S} \cup {TSet(t) : t \in S}
    \cup {TTuple(s) : s \in SeqsUpTo(S, MaxArity)}
    \cup {TObject(f) : f \in UNION {[D -> S] : D \in SUBSET FieldNames}}

\* Types nested up to two constructors deep (three for the collections of
\* String, and a Tuple and an Object of collections).
Types ==
    BaseTypes \cup Wrap(BaseTypes)
    \cup {TList(TList(TString)), TList(TMap(TString)), TMap(TList(TString)),
          TSet(TTuple(<<TString, TBool>>)), TList(TObject([a |-> TString])),
          TList(TObject([b |-> TString])), TList(TList(TList(TString))),
          TTuple(<<TList(TString)>>), TTuple(<<TList(TBool)>>),
          TObject([a |-> TList(TString)]), TObject([a |-> TList(TBool)]),
          TObject([a |-> TObject([a |-> TString, b |-> TBool])])}

\* The element types handed to the constructors in the pool specification.
ElemTypes == {TString, TBool, TAny}

\* #[derive(PartialEq)] on Type: same variant and equal parameters; Vec
\* equality is length and pairwise equality, HashMap equality is equal length
\* and every key of the left present on the right with an equal value.
RECURSIVE TypeEq(_, _)
\* a comparison of the variants alone
TypeEqShallow(a, b) == a[1] = b[1]
TypeEq(a, b) ==
    IF a[1] # b[1] THEN FALSE
    ELSE CASE a[1] \in {"String", "Bool", "Number", "Any"} -> TRUE
           [] a[1] \in {"List", "Map", "Set"} -> TypeEq(a[2], b[2])
           [] a[1] = "Tuple" ->
                /\ Len(a[2]) = Len(b[2])
                /\ \A i \in 1..Len(a[2]) : TypeEq(a[2][i], b[2][i])
           [] a[1] = "Object" ->
                /\ Cardinality(DOMAIN a[2]) = Cardinality(DOMAIN b[2])
                /\ \A k \in DOMAIN a[2] :
                      k \in DOMAIN b[2] /\ TypeEq(a[2][k], b[2][k])

(***************************************************************************)
(* Unicode Normalization Form C over a five code point fragment of         *)
(* Unicode: e (U+0065), combining acute (U+0301, class 230), combining     *)
(* cedilla (U+0327, class 202), e-acute (U+00E9 = U+0065 U+0301) and       *)
(* e-cedilla (U+0229 = U+0065 U+0327).                                     *)
(***************************************************************************)
CodePoints == {"e", "acute", "cedilla", "e_acute", "e_cedilla"}

Texts == SeqsUpTo(CodePoints, MaxTextLen)

\* canonical combining class
ccc(c) == CASE c = "acute" -> 230 [] c = "cedilla" -> 202 [] OTHER -> 0

\* canonical decomposition of one code point
decompose(c) ==
    CASE c = "e_acute" -> <<"e", "acute">>
      [] c = "e_cedilla" -> <<"e", "cedilla">>
      [] OTHER -> <<c>>

\* primary composite of a starter and a combining mark, "" when there is none
compose(s, c) ==
    CASE s = "e" /\ c = "acute" -> "e_acute"
      [] s = "e" /\ c = "cedilla" -> "e_cedilla"
      [] OTHER -> ""

RECURSIVE decomposeAll(_)
decomposeAll(s) ==
    IF s = <<>> THEN <<>> ELSE decompose(Head(s)) \o decomposeAll(Tail(s))

\* canonical ordering: a stable sort of every run of non-starters by class
\* (insertion of the code point c at the end of the ordered text s)
RECURSIVE orderInsert(_, _)
orderInsert(s, c) ==
    IF s # <<>> /\ ccc(c) # 0 /\ ccc(s[Len(s)]) > ccc(c)
    THEN orderInsert(SubSeq(s, 1, Len(s) - 1), c) \o <<s[Len(s)]>>
    ELSE s \o <<c>>

RECURSIVE canonicalOrder(_, _)
canonicalOrder(s, acc) ==
    IF s = <<>> THEN acc ELSE canonicalOrder(Tail(s), orderInsert(acc, Head(s)))

\* canonical composition: out is the composed text so far, st the index in
\* out of the last starter (0 when none), last the class of the last code
\* point appended after that starter (0 when none)
RECURSIVE composeAll(_, _, _, _)
composeAll(s, out, st, last) ==
    IF s = <<>> THEN out
    ELSE LET c == Head(s)
             blocked == last # 0 /\ last >= ccc(c)
         IN  IF st # 0 /\ ~blocked /\ ccc(c) # 0 /\ compose(out[st], c) # ""
             THEN composeAll(Tail(s), [out EXCEPT ![st] = compose(out[st], c)], st, last)
             ELSE IF ccc(c) = 0
                  THEN composeAll(Tail(s), out \o <<c>>, Len(out) + 1, 0)
                  ELSE composeAll(Tail(s), out \o <<c>>, st, ccc(c))

nfc(s) == composeAll(canonicalOrder(decomposeAll(s), <<>>), <<>>, 0, 0)

(***************************************************************************)
(* enum ValueInner, struct Value and the constructors                      *)
(***************************************************************************)
INull == <<"Null">>
IUnknown == <<"Unknown">>
IBool(b) == <<"Bool", b>>
IString(s) == <<"String", s>>
ISequence(s) == <<"Sequence", s>>
IMapping(f) == <<"Mapping", f>>

\* Value::type_
type_(x) == x.ty

\* #[derive(Clone)] on ValueInner: a deep copy, variant by variant
RECURSIVE clone(_)
clone(v) ==
    CASE v[1] = "Sequence" -> ISequence([i \in 1..Len(v[2]) |-> clone(v[2][i])])
      [] v[1] = "Mapping" -> IMapping([k \in DOMAIN v[2] |-> clone(v[2][k])])
      [] v[1] = "String" -> IString(v[2])
      [] v[1] = "Bool" -> IBool(v[2])
      [] v[1] = "Unknown" -> IUnknown
      [] v[1] = "Null" -> INull

null(ty) == [ty |-> ty, v |-> INull]

unknown(ty) == [ty |-> ty, v |-> IUnknown]

dynamic == [ty |-> TAny, v |-> IUnknown]

\* string without the normalization
stringRaw(s) == [ty |-> TString, v |-> IString(s)]
string(s) == [ty |-> TString, v |-> IString(nfc(s))]

bool(b) == [ty |-> TBool, v |-> IBool(b)]

\* the panic!() of list and map: the operation ends and yields no Value
Panic(actual, expected) == [ok |-> FALSE, actual |-> actual, expected |-> expected]

Ok(x) == [ok |-> TRUE, val |-> x]

list_raw(ty, s) == [ty |-> ty, v |-> ISequence(s)]

\* the for loop of Value::list from element i on, v the Sequence so far
RECURSIVE listLoop(_, _, _, _)
\* the loop with a mismatching element left out instead of a panic
RECURSIVE listLoopSkip(_, _, _, _)
listLoopSkip(ty, xs, i, v) ==
    IF i > Len(xs) THEN Ok(list_raw(ty, v))
    ELSE IF ~TypeEq(type_(xs[i]), ty) THEN listLoopSkip(ty, xs, i + 1, v)
    ELSE listLoopSkip(ty, xs, i + 1, Append(v, clone(xs[i].v)))
\* the loop with every payload put in front of the earlier ones
RECURSIVE listLoopFront(_, _, _, _)
listLoopFront(ty, xs, i, v) ==
    IF i > Len(xs) THEN Ok(list_raw(ty, v))
    ELSE IF ~TypeEq(type_(xs[i]), ty) THEN Panic(type_(xs[i]), ty)
    ELSE listLoopFront(ty, xs, i + 1, <<clone(xs[i].v)>> \o v)
listLoop(ty, xs, i, v) ==
    IF i > Len(xs) THEN Ok(list_raw(ty, v))
    ELSE IF ~TypeEq(type_(xs[i]), ty) THEN Panic(type_(xs[i]), ty)
    ELSE listLoop(ty, xs, i + 1, Append(v, clone(xs[i].v)))

list(ty, xs) == listLoop(ty, xs, 1, <<>>)

\* HashMap::insert
Insert(m, k, x) == [j \in DOMAIN m \cup {k} |-> IF j = k THEN x ELSE m[j]]

EmptyMap == [k \in {} |-> <<>>]

\* the HashMap<String, Value> a caller hands to Value::map, built by the
\* inserts ws = <<key, Value>>, ... in that order
RECURSIVE FromWrites(_)
FromWrites(ws) ==
    IF ws = <<>> THEN EmptyMap
    ELSE LET w == ws[Len(ws)]
         IN  Insert(FromWrites(SubSeq(ws, 1, Len(ws) - 1)), w[1], w[2])

map_raw(ty, m) == [ty |-> ty, v |-> IMapping(m)]

\* the for loop of Value::map over the entries m, visited in the order of
\* the sequence of keys order, from position i on, v the Mapping so far
RECURSIVE mapLoop(_, _, _, _, _)
\* the loop left after the first entry
mapLoopFirst(ty, m, order, i, v) ==
    IF i > Len(order) THEN Ok(map_raw(ty, v))
    ELSE IF ~TypeEq(type_(m[order[i]]), ty) THEN Panic(type_(m[order[i]]), ty)
    ELSE Ok(map_raw(ty, Insert(v, order[i], clone(m[order[i]].v))))
mapLoop(ty, m, order, i, v) ==
    IF i > Len(order) THEN Ok(map_raw(ty, v))
    ELSE IF ~TypeEq(type_(m[order[i]]), ty) THEN Panic(type_(m[order[i]]), ty)
    ELSE mapLoop(ty, m, order, i + 1, Insert(v, order[i], clone(m[order[i]].v)))

map(ty, m, order) == mapLoop(ty, m, order, 1, EmptyMap)

(***************************************************************************)
(* Equality                                                                *)
(***************************************************************************)
\* eq with an arm (Unknown, Unknown) => true in front
eqUnknownRefl(a, b) ==
    CASE a[1] = "Unknown" /\ b[1] = "Unknown" -> TRUE
      [] a[1] = "Unknown" -> FALSE
      [] b[1] = "Unknown" -> FALSE
      [] a[1] = "Null" /\ b[1] = "Null" -> TRUE
      [] a[1] = "Bool" /\ b[1] = "Bool" -> a[2] = b[2]
      [] a[1] = "String" /\ b[1] = "String" -> a[2] = b[2]
      [] OTHER -> FALSE

\* eq with an arm (Sequence(a), Sequence(b)) => a == b by structure
eqDeep(a, b) ==
    CASE a[1] = "Unknown" -> FALSE
      [] b[1] = "Unknown" -> FALSE
      [] a[1] = "Null" /\ b[1] = "Null" -> TRUE
      [] a[1] = "Bool" /\ b[1] = "Bool" -> a[2] = b[2]
      [] a[1] = "String" /\ b[1] = "String" -> a[2] = b[2]
      [] a[1] = "Sequence" /\ b[1] = "Sequence" -> a[2] = b[2]
      [] OTHER -> FALSE

\* eq with the arm (Null, Null) widened to (Null, _)
eqNullAny(a, b) ==
    CASE a[1] = "Unknown" -> FALSE
      [] a[1] = "Null" -> TRUE
      [] b[1] = "Unknown" -> FALSE
      [] a[1] = "Bool" /\ b[1] = "Bool" -> a[2] = b[2]
      [] a[1] = "String" /\ b[1] = "String" -> a[2] = b[2]
      [] OTHER -> FALSE

\* impl PartialEq for ValueInner, arm by arm
eq(a, b) ==
    CASE a[1] = "Unknown" -> FALSE
      [] b[1] = "Unknown" -> FALSE
      [] a[1] = "Null" /\ b[1] = "Null" -> TRUE
      [] a[1] = "Bool" /\ b[1] = "Bool" -> a[2] = b[2]
      [] a[1] = "String" /\ b[1] = "String" -> a[2] = b[2]
      [] OTHER -> FALSE

\* #[derive(PartialEq)] on Value: both fields are equal
ValueEq(x, y) == TypeEq(x.ty, y.ty) /\ eq(x.v, y.v)

(***************************************************************************)
(* The pool specification: a program that calls the public constructors,   *)
(* feeding list and map with Values built earlier.  vals holds the Values  *)
(* built so far (at most MaxVals distinct ones, and then one last call),   *)
(* res the last call with its inputs and its outcome.  A panic ends the    *)
(* program.                                                                *)
(***************************************************************************)
Keys == {"x", "y"}

PoolTexts == {<<"e">>, <<"e", "acute">>, <<"e_acute">>}

NoCall == [op |-> "none", ty |-> TAny, args |-> <<>>, out |-> [ok |-> TRUE]]

\* a constructor call made while there is room in vals for its result
Call(op, ty, args, out) ==
    /\ Cardinality(vals) < MaxVals
    /\ res' = [op |-> op, ty |-> ty, args |-> args, out |-> out]
    /\ vals' = IF out.ok THEN vals \cup {out.val} ELSE vals
    /\ pc' = IF out.ok THEN "pool" ELSE "panicked"
    /\ UNCHANGED inp

\* a call made when vals is full: the last call of the program
LastCall(op, ty, args, out) ==
    /\ Cardinality(vals) = MaxVals
    /\ res' = [op |-> op, ty |-> ty, args |-> args, out |-> out]
    /\ pc' = IF out.ok THEN "done" ELSE "panicked"
    /\ UNCHANGED <<vals, inp>>

CallNull ==
    /\ pc = "pool"
    /\ \E ty \in ElemTypes : Call("null", ty, <<>>, Ok(null(ty)))

CallUnknown ==
    /\ pc = "pool"
    /\ \E ty \in ElemTypes : Call("unknown", ty, <<>>, Ok(unknown(ty)))

CallDynamic ==
    /\ pc = "pool"
    /\ Call("dynamic", TAny, <<>>, Ok(dynamic))

CallString ==
    /\ pc = "pool"
    /\ \E s \in PoolTexts : Call("string", TString, <<s>>, Ok(string(s)))

CallBool ==
    /\ pc = "pool"
    /\ \E b \in BOOLEAN : Call("bool", TBool, <<b>>, Ok(bool(b)))

CallList ==
    /\ pc = "pool"
    /\ \E ty \in ElemTypes : \E xs \in SeqsUpTo(vals, MaxLen) :
          LET out == list(ty, xs)
          IN  Call("list", ty, xs, out) \/ LastCall("list", ty, xs, out)

\* the HashMap handed to map is visited in an order the caller does not
\* control: any permutation of its keys
CallMap ==
    /\ pc = "pool"
    /\ \E ty \in ElemTypes : \E D \in SUBSET Keys : \E m \in [D -> vals] :
          \E order \in Perms(D) :
              LET out == map(ty, m, order)
              IN  \/ Call("map", ty, <<m, order>>, out)
                  \/ LastCall("map", ty, <<m, order>>, out)

\* #[derive(Clone)] on Value
CallClone ==
    /\ pc = "pool"
    /\ \E x \in vals :
          LET c == Ok([ty |-> x.ty, v |-> clone(x.v)])
          IN  Call("clone", x.ty, <<x>>, c) \/ LastCall("clone", x.ty, <<x>>, c)

\* a == b on two Values built so far
CallEq ==
    /\ pc = "pool"
    /\ \E x, y \in vals :
          /\ res' = [op |-> "eq", ty |-> TBool, args |-> <<x, y>>,
                     out |-> [ok |-> TRUE, eq |-> ValueEq(x, y)]]
          /\ pc' = "done"
          /\ UNCHANGED <<vals, inp>>

Init ==
    /\ vals = {}
    /\ res = NoCall
    /\ inp = <<>>
    /\ pc = "pool"

Next ==
    \/ CallNull
    \/ CallUnknown
    \/ CallDynamic
    \/ CallString
    \/ CallBool
    \/ CallList
    \/ CallMap
    \/ CallClone
    \/ CallEq

Spec == Init /\ [][Next]_vars

\* the Values that exist: those in vals and the one the last call built
Built ==
    IF res.op \in {"null", "unknown", "dynamic", "string", "bool", "list", "map", "clone"}
       /\ res.out.ok
    THEN {res.out.val} ELSE {}

Existing == vals \cup Built

(***************************************************************************)
(* The collection specification: one call of list or of map on inputs      *)
(* drawn by the initial state.  inp.xs are the Values handed over, in      *)
(* order; for map the caller inserts them in that order into a HashMap     *)
(* under the keys inp.ks.                                                  *)
(***************************************************************************)
CollTypes == ElemTypes \cup {TList(TString)}

\* Values the public constructors build
Inputs ==
    {null(TString), null(TList(TString)), unknown(TString), unknown(TBool), dynamic,
     string(<<"e">>), string(<<"e", "acute">>), bool(TRUE), bool(FALSE),
     list(TString, <<>>).val,
     list(TBool, <<bool(TRUE), bool(FALSE)>>).val,
     map(TAny, [k \in {"x"} |-> dynamic], <<"x">>).val}

Writes(ks, xs) == [i \in 1..Len(xs) |-> <<ks[i], xs[i]>>]

InitColl ==
    /\ pc = "coll"
    /\ res = NoCall
    /\ \E ty \in CollTypes : \E xs \in SeqsUpTo(Inputs, MaxLen) :
          \E ks \in [1..Len(xs) -> Keys] :
              /\ inp = [ty |-> ty, xs |-> xs, ks |-> ks]
              /\ vals = {xs[i] : i \in 1..Len(xs)}

ApplyList ==
    /\ pc = "coll"
    /\ LET out == list(inp.ty, inp.xs)
       IN  /\ res' = [op |-> "list", ty |-> inp.ty, args |-> inp.xs, out |-> out]
           /\ pc' = IF out.ok THEN "done" ELSE "panicked"
    /\ UNCHANGED <<vals, inp>>

ApplyMap ==
    /\ pc = "coll"
    /\ LET m == FromWrites(Writes(inp.ks, inp.xs))
       IN  \E order \in Perms(DOMAIN m) :
               LET out == map(inp.ty, m, order)
               IN  /\ res' = [op |-> "map", ty |-> inp.ty, args |-> <<m, order>>, out |-> out]
                   /\ pc' = IF out.ok THEN "done" ELSE "panicked"
    /\ UNCHANGED <<vals, inp>>

NextColl ==
    \/ ApplyList
    \/ ApplyMap

SpecColl == InitColl /\ [][NextColl]_vars

(***************************************************************************)
(* The type specification: null(t1) compared with null(t2) and with the    *)
(* Values of type t2 that do not hold Null, for t1 and t2 drawn from Types. *)
(***************************************************************************)
NonNull(t) ==
    {unknown(t), string(<<"e">>), bool(TRUE), list(t, <<>>).val, map(t, EmptyMap, <<>>).val}

InitTypes ==
    /\ pc = "types"
    /\ res = NoCall
    /\ vals = {}
    /\ inp \in [t1 : Types, t2 : Types]

Compare(op, x, y) ==
    /\ res' = [op |-> op, ty |-> TBool, args |-> <<x, y>>,
               out |-> [ok |-> TRUE, eq |-> ValueEq(x, y)]]
    /\ pc' = "done"
    /\ UNCHANGED <<vals, inp>>

CompareNulls ==
    /\ pc = "types"
    /\ Compare("eq", null(inp.t1), null(inp.t2))

CompareOther ==
    /\ pc = "types"
    /\ \E y \in NonNull(inp.t2) :
          Compare("eq", null(inp.t1), y) \/ Compare("eq", y, null(inp.t1))

NextTypes ==
    \/ CompareNulls
    \/ CompareOther

SpecTypes == InitTypes /\ [][NextTypes]_vars

(***************************************************************************)
(* The string specification: string(s1) compared with string(s2) and with  *)
(* string(nfc(s1)), for s1 and s2 drawn from Texts.                        *)
(***************************************************************************)
InitStrings ==
    /\ pc = "strings"
    /\ res = NoCall
    /\ vals = {}
    /\ inp \in [s1 : Texts, s2 : Texts]

CompareStrings ==
    /\ pc = "strings"
    /\ Compare("eq", string(inp.s1), string(inp.s2))

CompareNormalized ==
    /\ pc = "strings"
    /\ Compare("eq_nfc", string(inp.s1), string(nfc(inp.s1)))

NextStrings ==
    \/ CompareStrings
    \/ CompareNormalized

SpecStrings == InitStrings /\ [][NextStrings]_vars

(***************************************************************************)
(* The claims                                                              *)
(***************************************************************************)
Min(S) == CHOOSE i \in S : \A j \in S : i <= j

Kind(x) == x.v[1]

IsCall(op) == res.op = op /\ res.out.ok

\* C1: every successful list(t, elements) returns a Value whose type_() is
\* List(t), and every successful map(t, entries) one whose type_() is Map(t).
C1_CollectionType ==
    /\ IsCall("list") => type_(res.out.val) = TList(res.ty)
    /\ IsCall("map") => type_(res.out.val) = TMap(res.ty)

\* C2: list and map produce a Value if and only if every supplied element's
\* declared type is structurally equal to the element type; otherwise the
\* call panics with no Value produced; list reports the lowest-index
\* mismatching element, naming its type and the element type.
C2_Validation ==
    /\ res.op = "list" =>
          LET xs == res.args
              bad == {i \in 1..Len(xs) : xs[i].ty # res.ty}
          IN  /\ res.out.ok <=> bad = {}
              /\ res.out.ok => DOMAIN res.out = {"ok", "val"} /\ pc = "done"
              /\ ~res.out.ok =>
                    /\ DOMAIN res.out = {"ok", "actual", "expected"}
                    /\ pc = "panicked"
                    /\ res.out.actual = xs[Min(bad)].ty
                    /\ res.out.expected = res.ty
    /\ res.op = "map" =>
          LET m == res.args[1]
              bad == {k \in DOMAIN m : m[k].ty # res.ty}
          IN  /\ res.out.ok <=> bad = {}
              /\ res.out.ok => DOMAIN res.out = {"ok", "val"} /\ pc = "done"
              /\ ~res.out.ok =>
                    /\ DOMAIN res.out = {"ok", "actual", "expected"}
                    /\ pc = "panicked"
                    /\ \E k \in bad : res.out.actual = m[k].ty
                    /\ res.out.expected = res.ty

\* a list call that panics on its second element after accepting the first
C2_Witness ==
    /\ res.op = "list" /\ ~res.out.ok
    /\ Len(res.args) = 2
    /\ res.args[1].ty = res.ty
    /\ res.out.actual = res.args[2].ty

\* C3: every Value that exists has a payload consistent with its declared
\* type (String under String, Bool under Bool, Sequence under a List(T),
\* Mapping under a Map(T)), and every payload nested in a Sequence or Mapping
\* came from a Value whose declared type is the collection's element type.
C3_PayloadConsistent ==
    /\ \A x \in Existing :
          /\ Kind(x) = "String" => x.ty = TString
          /\ Kind(x) = "Bool" => x.ty = TBool
          /\ Kind(x) = "Sequence" => x.ty[1] = "List"
          /\ Kind(x) = "Mapping" => x.ty[1] = "Map"
    /\ IsCall("list") =>
          /\ res.out.val.ty[1] = "List"
          /\ \A i \in 1..Len(res.args) : res.args[i].ty = res.out.val.ty[2]
    /\ IsCall("map") =>
          /\ res.out.val.ty[1] = "Map"
          /\ \A k \in DOMAIN res.args[1] : res.args[1][k].ty = res.out.val.ty[2]

\* C4: a Value with an Unknown payload is never equal to anything, on either
\* side of ==, itself and its clone included.
C4_UnknownNeverEqual ==
    /\ \A x \in Existing : \A y \in Existing :
          Kind(x) = "Unknown" =>
              /\ ~ValueEq(x, y)
              /\ ~ValueEq(y, x)
              /\ ~ValueEq(x, [ty |-> x.ty, v |-> clone(x.v)])
    /\ res.op = "eq" /\ "Unknown" \in {Kind(res.args[1]), Kind(res.args[2])} => ~res.out.eq

\* dynamic() == dynamic() was evaluated
C4_Witness ==
    /\ res.op = "eq"
    /\ res.args = <<dynamic, dynamic>>
    /\ ~res.out.eq

\* C5: comparing two Values always yields true or false, and false whenever
\* either payload is a Sequence or a Mapping (a collection compared with
\* itself or its clone included) and whenever the payload variants differ.
C5_CollectionsNeverEqual ==
    /\ \A x \in Existing : \A y \in Existing :
          /\ ValueEq(x, y) \in BOOLEAN
          /\ {Kind(x), Kind(y)} \cap {"Sequence", "Mapping"} # {} => ~ValueEq(x, y)
          /\ Kind(x) # Kind(y) => ~ValueEq(x, y)
          /\ Kind(x) \in {"Sequence", "Mapping"} =>
                ~ValueEq(x, [ty |-> x.ty, v |-> clone(x.v)])
    /\ res.op = "eq" => res.out.eq \in BOOLEAN

\* a list with an element was compared with itself
C5_Witness ==
    /\ res.op = "eq"
    /\ res.args[1] = res.args[2]
    /\ Kind(res.args[1]) = "Sequence"
    /\ Len(res.args[1].v[2]) > 0
    /\ ~res.out.eq

\* C6: null(t1) == null(t2) is true if and only if t1 and t2 are
\* structurally equal, and null(t) is unequal to every Value whose payload
\* is not Null.
C6_NullEquality ==
    res.op = "eq" =>
        LET x == res.args[1]
            y == res.args[2]
        IN  /\ Kind(x) = "Null" /\ Kind(y) = "Null" => (res.out.eq <=> x.ty = y.ty)
            /\ (Kind(x) = "Null") # (Kind(y) = "Null") => ~res.out.eq

\* two nulls of nested types that differ only below the outermost variant
C6_Witness ==
    /\ res.op = "eq"
    /\ Kind(res.args[1]) = "Null" /\ Kind(res.args[2]) = "Null"
    /\ res.args[1].ty[1] = "Object" /\ res.args[2].ty[1] = "Object"
    /\ DOMAIN res.args[1].ty[2] = DOMAIN res.args[2].ty[2]
    /\ ~res.out.eq

\* C7: string(s1) == string(s2) if and only if nfc(s1) = nfc(s2);
\* string(s) == string(nfc(s)); the text string(s) stores is a fixed point
\* of nfc.
C7_StringEquality ==
    /\ res.op = "eq" => (res.out.eq <=> nfc(inp.s1) = nfc(inp.s2))
    /\ res.op = "eq_nfc" => res.out.eq
    /\ res.op \in {"eq", "eq_nfc"} =>
          \A i \in 1..2 : nfc(res.args[i].v[2]) = res.args[i].v[2]

\* two different texts that normalize to the same text compared equal
C7_Witness ==
    /\ res.op = "eq"
    /\ inp.s1 # inp.s2
    /\ Len(inp.s1) # Len(inp.s2)
    /\ res.out.eq

\* C8: when list succeeds the stored Sequence has the length of elements and
\* its i-th entry is the payload of elements[i]; the inputs are unchanged.
C8_ListOrder ==
    IsCall("list") =>
        LET s == res.out.val.v
        IN  /\ s[1] = "Sequence"
            /\ Len(s[2]) = Len(res.args)
            /\ \A i \in 1..Len(res.args) : s[2][i] = res.args[i].v
            /\ res.args = inp.xs
            /\ vals = {inp.xs[i] : i \in 1..Len(inp.xs)}

\* a list of two elements with different payloads was built
C8_Witness ==
    /\ IsCall("list")
    /\ Len(res.args) = 2
    /\ res.args[1].v # res.args[2].v
    /\ res.out.val.v[2] = <<res.args[1].v, res.args[2].v>>

\* the last write of the key k among the writes of keys ks
LastWrite(ks, k) == CHOOSE i \in DOMAIN ks : ks[i] = k /\ \A j \in DOMAIN ks : ks[j] = k => j <= i

\* C9: when map succeeds the stored Mapping has exactly the distinct keys
\* written and maps each key to the payload of the last Value written under
\* it, whatever the order in which the entries are visited.
C9_MapLastWrite ==
    IsCall("map") =>
        LET s == res.out.val.v
        IN  /\ s[1] = "Mapping"
            /\ DOMAIN s[2] = {inp.ks[i] : i \in DOMAIN inp.ks}
            /\ \A k \in DOMAIN s[2] : s[2][k] = inp.xs[LastWrite(inp.ks, k)].v

\* a map was built from two writes of different payloads under one key
C9_Witness ==
    /\ IsCall("map")
    /\ Len(inp.ks) = 2
    /\ inp.ks[1] = inp.ks[2]
    /\ inp.xs[1].v # inp.xs[2].v
    /\ res.out.val.v[2][inp.ks[1]] = inp.xs[2].v

\* C10: Value equality is symmetric.
C10_Symmetric ==
    /\ \A x \in Existing : \A y \in Existing : ValueEq(x, y) = ValueEq(y, x)
    /\ res.op = "eq" => res.out.eq = ValueEq(res.args[2], res.args[1])

\* a Null was compared with an Unknown of the same type
C10_Witness ==
    /\ res.op = "eq"
    /\ Kind(res.args[1]) = "Null" /\ Kind(res.args[2]) = "Unknown"
    /\ res.args[1].ty = res.args[2].ty
    /\ ~res.out.eq

====
